---- MODULE Spec2Model ----
(***************************************************************************)
(* HttpClient of the web-content MCP server: cache lookup, in-flight       *)
(* de-duplication, the admission queue, request execution and metrics.     *)
(* JavaScript runs each handler to its first real suspension point (the    *)
(* network await, the body read) without interleaving, so an action is one *)
(* such run-to-suspension segment.                                         *)
(***************************************************************************)
EXTENDS Integers, Sequences, FiniteSets, TLC

VARIABLES
    now,                  \* Date.now(), in milliseconds
    cache,                \* this.cache: LRU order, head = least recently used
    activeRequests,       \* this.activeRequests: key -> id of the registered promise, 0 = no entry
    requestQueue,         \* this.requestQueue: ids of the queued closures, head first
    activeRequestCount,   \* this.activeRequestCount
    metrics,              \* this.metrics
    config,               \* this.config, never assigned after the constructor
    calls,                \* one record per call of fetch(), in the order of the calls
    recency,              \* observer: the keys the client read from or wrote to the cache
                          \*   since it was last cleared, least recently used first
    oversize,             \* observer: the calls whose body read exceeded maxContentLength
    tally,                \* observer: the events since the metrics were last reset
    seen,                 \* observer: what the requests were answered and what they threw
    server,               \* the WebContentMcpServer around the client
    pc                    \* the request inside its finally block, and the line it is at

vars == <<now, cache, activeRequests, requestQueue, activeRequestCount, metrics, config, calls,
          recency, oversize, tally, seen, server, pc>>

\* the server, the position inside a finally block and the later observers
aside == <<seen, server, pc>>

\* the variables no handler of the client reads: the observers (history
\* variables), the server and the position inside a finally block; a
\* specification that does not follow one of them leaves it unchanged
observed == <<recency, oversize, tally, aside>>

\* ---------------------------------------------------------------- bounds
MaxCalls == 3             \* calls of fetch() in one behaviour of Spec
MaxTicks == 1             \* clock advances in one behaviour of Spec
MaxCallsWide == 4         \* calls of fetch() in one behaviour of SpecWide
MaxTicksWide == 1         \* clock advances in one behaviour of SpecWide
MaxCallsTTL == 3          \* calls of fetch() in one behaviour of SpecTTL
MaxTicksTTL == 2          \* clock advances in one behaviour of SpecTTL
MaxCallsFair == 3         \* calls of fetch() in one behaviour of SpecFair
MaxCallsMetrics == 3      \* calls of fetch() in one behaviour of SpecMetrics
MaxTicksMetrics == 1      \* clock advances in one behaviour of SpecMetrics
MaxCallsLru == 4          \* calls of fetch() in one behaviour of SpecLru
MaxCallsCap == 3          \* calls of fetch() in one behaviour of SpecCap
MaxCallsTally == 3        \* calls of fetch() in one behaviour of SpecTally
MaxTicksTally == 1        \* clock advances in one behaviour of SpecTally
MaxCallsSeen == 3         \* calls of fetch() in one behaviour of SpecSeen
MaxTicksSeen == 1         \* clock advances in one behaviour of SpecSeen
MaxCallsValid == 3        \* calls of fetch() in one behaviour of SpecValid
MaxRequests == 2          \* cache keys computed in one behaviour of SpecKey
MaxCallsConfig == 2       \* calls of fetch() in one behaviour of SpecConfig
MaxToolCalls == 2         \* tool calls in one behaviour of SpecTool
MaxTicksTool == 1         \* clock advances in one behaviour of SpecTool
MaxCallsFinally == 3      \* calls of fetch() in one behaviour of SpecFinally
MaxCallsStore == 3        \* calls of fetch() in one behaviour of SpecStore
MaxTicksStore == 1        \* clock advances in one behaviour of SpecStore
MaxTimers == 3            \* timers set in one behaviour of SpecTimer
MaxCallsStall == 2        \* calls of fetch() in one behaviour of SpecStall
MaxTicksStall == 2        \* clock advances in one behaviour of SpecStall

\* ---------------------------------------------------------------- configuration
MsPerSec == 1000          \* "cacheTTL * 1000"
TickMs == MsPerSec        \* granularity of the clock

\* a Config: cacheTTL in seconds, requestTimeout in milliseconds,
\* maxContentLength in characters
Config(concurrent, size) ==
    [maxConcurrentRequests |-> concurrent, maxCacheSize |-> size, cacheTTL |-> 1,
     requestTimeout |-> MsPerSec, maxContentLength |-> 1]

Keys == {"a", "b", "c"}       \* cache keys of the requested (url, options)
KeysTTL == {"a", "b"}
BodyLengths == {1, 2}         \* content.length of a response body
ReadFails == 0 - 1            \* responseClone.text() rejects
NoEntry == 0 - 1          \* cache.get() === undefined
NoPromise == 0            \* activeRequests.get() === undefined

\* ---------------------------------------------------------------- numbers
\* JavaScript numbers that arise from the metrics' divisions, as fractions
\* n/d with d >= 0: 1/0 is Infinity, -1/0 is -Infinity, 0/0 is NaN.
RECURSIVE Gcd(_, _)
Gcd(a, b) == IF b = 0 THEN a ELSE Gcd(b, a % b)

Abs(x) == IF x < 0 THEN 0 - x ELSE x

Sign(x) == IF x > 0 THEN 1 ELSE IF x < 0 THEN 0 - 1 ELSE 0

Frac(n, d) ==
    IF d = 0 THEN [n |-> Sign(n), d |-> 0]
    ELSE LET g == Gcd(Abs(n), Abs(d))
             s == Sign(d)
         IN  [n |-> (s * n) \div g, d |-> (s * d) \div g]

Num(i) == [n |-> i, d |-> 1]

IsNaN(x) == x.n = 0 /\ x.d = 0

Mul(x, y) == Frac(x.n * y.n, x.d * y.d)

Add(x, y) ==
    IF x.d = 0 /\ y.d = 0
    THEN (IF x.n = y.n THEN x ELSE Frac(0, 0))
    ELSE Frac(x.n * y.d + y.n * x.d, x.d * y.d)

Div(x, y) ==
    IF IsNaN(x) \/ IsNaN(y) THEN Frac(0, 0)
    ELSE IF y.n = 0 THEN Frac(Sign(x.n), 0)
    ELSE Frac(x.n * y.d * Sign(y.n), x.d * Abs(y.n))

\* Math.round: the nearest integer, halves towards +Infinity.
Round(x) ==
    IF x.d = 0 THEN x
    ELSE LET a == 2 * x.n + x.d
             b == 2 * x.d
         IN  Num((a - (a % b)) \div b)

\* ---------------------------------------------------------------- LRUCache
LruIndex(c, k) ==
    IF \E i \in 1..Len(c) : c[i].key = k
    THEN CHOOSE i \in 1..Len(c) : c[i].key = k
    ELSE 0

LruRemove(c, i) == SubSeq(c, 1, i - 1) \o SubSeq(c, i + 1, Len(c))

\* faulty variant: the entry stays
LruDeleteNothing(c, k) == c

\* cache.delete
LruDelete(c, k) == IF LruIndex(c, k) = 0 THEN c ELSE LruRemove(c, LruIndex(c, k))

\* ttl: config.cacheTTL * 1000; an entry is stale once its age exceeds the ttl.
LruIsStale(e, t) == t - e.start > config.cacheTTL * MsPerSec

\* faulty variant: a get leaves the order of the entries as it is
LruGetInPlace(c, k, t) ==
    IF LruIndex(c, k) = 0 THEN [cache |-> c, value |-> NoEntry]
    ELSE [cache |-> c, value |-> c[LruIndex(c, k)].timestamp]

\* cache.get with updateAgeOnGet: true, allowStale: false
LruGet(c, k, t) ==
    LET i == LruIndex(c, k) IN
    IF i = 0 THEN [cache |-> c, value |-> NoEntry]
    ELSE IF LruIsStale(c[i], t) THEN [cache |-> LruRemove(c, i), value |-> NoEntry]
    ELSE [cache |-> Append(LruRemove(c, i), [c[i] EXCEPT !.start = t]),
          value |-> c[i].timestamp]

\* faulty variant: nothing is evicted
LruEvictNothing(c) == c

\* the entry cache.set evicts when the cache is full
LruEvict(c) == Tail(c)

\* cache.set with max: config.maxCacheSize
LruSet(c, k, ts, t) ==
    LET i == LruIndex(c, k)
        e == [key |-> k, timestamp |-> ts, start |-> t]
    IN  IF i # 0 THEN Append(LruRemove(c, i), e)
        ELSE IF Len(c) >= config.maxCacheSize THEN Append(LruEvict(c), e)
        ELSE Append(c, e)

\* ---------------------------------------------------------------- HttpClient
\* faulty variant: an entry expires when its age reaches the TTL
IsExpiredAtTTL(age) == age >= config.cacheTTL * MsPerSec

\* "age > this.config.cacheTTL * 1000"
IsExpired(age) == age > config.cacheTTL * MsPerSec

\* faulty variant: every lookup misses
getCachedResponseAbsent(c, k, t) == [cache |-> c, value |-> NoEntry]

getCachedResponse(c, k, t) ==
    LET g == LruGet(c, k, t) IN
    IF g.value = NoEntry THEN g
    ELSE IF IsExpired(t - g.value)
         THEN [cache |-> LruDelete(g.cache, k), value |-> NoEntry]
         ELSE g

updateMetrics(m, type, responseTime) ==
    IF type = "cache_hit" THEN
        LET totalRequests == m.requestCount + 1
            cacheHits == Add(Round(Mul(m.cacheHitRate, Num(m.requestCount))), Num(1))
        IN  [m EXCEPT !.cacheHitRate = Div(cacheHits, Num(totalRequests))]
    ELSE IF type = "error" THEN
        LET totalRequests == m.requestCount
            errors == Add(Round(Mul(m.errorRate, Num(totalRequests - 1))), Num(1))
        IN  [m EXCEPT !.errorRate = Div(errors, Num(totalRequests))]
    ELSE IF responseTime # 0 THEN
        LET totalRequests == m.requestCount
            totalTime == Add(Mul(m.averageResponseTime, Num(totalRequests - 1)),
                             Num(responseTime))
        IN  [m EXCEPT !.averageResponseTime = Div(totalTime, Num(totalRequests))]
    ELSE m

freshMetrics(t) ==
    [requestCount |-> 0, cacheHitRate |-> Num(0), averageResponseTime |-> Num(0),
     errorRate |-> Num(0), lastReset |-> t]

\* the mutable fields of the client, as one value the handlers transform
State ==
    [cache |-> cache, activeRequests |-> activeRequests, requestQueue |-> requestQueue,
     activeRequestCount |-> activeRequestCount, metrics |-> metrics, calls |-> calls]

\* the fields take the values of s (s is evaluated once)
Becomes(s) ==
    \E v \in {s} :
        /\ cache' = v.cache
        /\ activeRequests' = v.activeRequests
        /\ requestQueue' = v.requestQueue
        /\ activeRequestCount' = v.activeRequestCount
        /\ metrics' = v.metrics
        /\ calls' = v.calls

\* faulty variant: the comparison is off by one
AtLimitOffByOne(s) == s.activeRequestCount > config.maxConcurrentRequests

\* "this.activeRequestCount >= this.config.maxConcurrentRequests"
AtLimit(s) == s.activeRequestCount >= config.maxConcurrentRequests

\* faulty variant: the request is not counted
executeRequestUncounted(s, id, t) ==
    [s EXCEPT !.activeRequestCount = @ + 1,
              !.activeRequests[s.calls[id].key] = id,
              !.calls[id].st = "executing",
              !.calls[id].started = TRUE,
              !.calls[id].startTime = t]

\* executeRequest up to "await requestPromise": the network operation is
\* started and its promise registered
executeRequest(s, id, t) ==
    [s EXCEPT !.activeRequestCount = @ + 1,
              !.metrics.requestCount = @ + 1,
              !.activeRequests[s.calls[id].key] = id,
              !.calls[id].st = "executing",
              !.calls[id].started = TRUE,
              !.calls[id].startTime = t]

\* faulty variant: pop() instead of shift()
ShiftFromEnd(q) == [nextRequest |-> q[Len(q)], requestQueue |-> SubSeq(q, 1, Len(q) - 1)]

\* "this.requestQueue.shift()": the closure taken and the queue left
Shift(q) == [nextRequest |-> Head(q), requestQueue |-> Tail(q)]

\* faulty variant: a queued request is started only when no request executes
processQueueIfIdle(s, t) ==
    IF Len(s.requestQueue) > 0 /\ s.activeRequestCount = 0
    THEN executeRequest([s EXCEPT !.requestQueue = Tail(@)], Head(s.requestQueue), t)
    ELSE s

\* faulty variant: no queued request is started
processQueueNever(s, t) == s

processQueue(s, t) ==
    IF Len(s.requestQueue) > 0 /\ s.activeRequestCount < config.maxConcurrentRequests
    THEN executeRequest([s EXCEPT !.requestQueue = Shift(@).requestQueue],
                        Shift(s.requestQueue).nextRequest, t)
    ELSE s

\* faulty variant: the slot is given back twice
ReleaseSlotTwice(s) == [s EXCEPT !.activeRequestCount = @ - 2]

\* "this.activeRequestCount--"
ReleaseSlot(s) == [s EXCEPT !.activeRequestCount = @ - 1]

\* "this.activeRequests.delete(cacheKey)"
ReleaseHandle(s, id) == [s EXCEPT !.activeRequests[s.calls[id].key] = NoPromise]

\* faulty variant: the queue is not looked at
FinallyWithoutQueue(s, id, t) == ReleaseHandle(ReleaseSlot(s), id)

\* the finally block of executeRequest, statement by statement
Finally(s, id, t) == processQueue(ReleaseHandle(ReleaseSlot(s), id), t)

queueRequest(s, id) == [s EXCEPT !.requestQueue = Append(@, id)]

\* what a caller attached to the raw node-fetch promise of a request gets
JoinedResult(outcome) ==
    CASE outcome = "ok" -> "Response"
      [] outcome = "notok" -> "ResponseNotOk"
      [] outcome = "abort" -> "AbortError"
      [] OTHER -> "FetchError"

\* what executeRequest's own caller gets
OwnResult(outcome) ==
    CASE outcome = "ok" -> "Response"
      [] outcome = "notok" -> "NetworkError"
      [] outcome = "abort" -> "TimeoutError"
      [] OTHER -> "NetworkError"

NewCall(k, t) ==
    [key |-> k, role |-> "none", st |-> "new", res |-> "none", started |-> FALSE,
     via |-> NoPromise, startTime |-> 0,
     pending |-> {c \in 1..Len(calls) : calls[c].key = k /\ calls[c].st # "done"},
     age |-> IF LruIndex(cache, k) = 0 THEN NoEntry
             ELSE t - cache[LruIndex(cache, k)].timestamp,
     removed |-> FALSE]

\* ---------------------------------------------------------------- actions
fetch(k, maxCalls) ==
    /\ Len(calls) < maxCalls
    /\ \E look \in {getCachedResponse(cache, k, now)} :
       \E s0 \in {[State EXCEPT !.cache = look.cache,
                                !.calls = Append(@, [NewCall(k, now) EXCEPT
                                    !.removed = LruIndex(cache, k) # 0
                                                /\ LruIndex(look.cache, k) = 0])]} :
       LET id == Len(calls) + 1
           joined == activeRequests[k]
       IN  IF look.value # NoEntry THEN
               Becomes([s0 EXCEPT !.metrics = updateMetrics(@, "cache_hit", 0),
                                  !.calls[id].role = "hit",
                                  !.calls[id].st = "done",
                                  !.calls[id].res = "Response"])
           ELSE IF joined # NoPromise THEN
               IF calls[joined].st = "executing"
               THEN Becomes([s0 EXCEPT !.calls[id].role = "join",
                                       !.calls[id].st = "joined",
                                       !.calls[id].via = joined])
               ELSE Becomes([s0 EXCEPT !.calls[id].role = "join",
                                       !.calls[id].st = "done",
                                       !.calls[id].via = joined,
                                       !.calls[id].res = JoinedResult("ok")])
           ELSE IF AtLimit(s0) THEN
               Becomes(queueRequest([s0 EXCEPT !.calls[id].role = "queue",
                                               !.calls[id].st = "queued"], id))
           ELSE
               Becomes(executeRequest([s0 EXCEPT !.calls[id].role = "run"], id, now))
    /\ UNCHANGED <<now, config>>

\* the promise of node-fetch settles: every caller attached to it is settled,
\* and executeRequest resumes after "await requestPromise"
settleJoined(s, id, outcome) ==
    [s EXCEPT !.calls = [c \in 1..Len(s.calls) |->
        IF s.calls[c].st = "joined" /\ s.calls[c].via = id
        THEN [s.calls[c] EXCEPT !.st = "done", !.res = JoinedResult(outcome)]
        ELSE s.calls[c]]]

responseOk(id) ==
    /\ id \in 1..Len(calls)
    /\ calls[id].st = "executing"
    /\ Becomes([settleJoined(State, id, "ok") EXCEPT !.calls[id].st = "caching"])
    /\ UNCHANGED <<now, config>>

\* faulty variant: the failed request leaves an entry in the cache
failedAndCached(s, id, outcome) ==
    [settleJoined(s, id, outcome) EXCEPT
        !.cache = LruSet(@, s.calls[id].key, now, now),
        !.metrics = updateMetrics(@, "error", 0),
        !.calls[id].st = "done",
        !.calls[id].startTime = 0,
        !.calls[id].res = OwnResult(outcome)]

\* faulty variant: the failure is recorded as a success
failedAsSuccess(s, id, outcome) ==
    [settleJoined(s, id, outcome) EXCEPT
        !.metrics = updateMetrics(@, "success", now - s.calls[id].startTime),
        !.calls[id].st = "done",
        !.calls[id].startTime = 0,
        !.calls[id].res = OwnResult(outcome)]

\* the request at the end of its catch block
failed(s, id, outcome) ==
    [settleJoined(s, id, outcome) EXCEPT !.metrics = updateMetrics(@, "error", 0),
                                         !.calls[id].st = "done",
                                         !.calls[id].startTime = 0,
                                         !.calls[id].res = OwnResult(outcome)]

\* faulty variant: the timer also runs for a request that waits in the queue
MayFailQueued(id, outcome) ==
    /\ id \in 1..Len(calls)
    /\ calls[id].st \in {"executing", "queued"}
    /\ outcome = "abort" => now - calls[id].startTime >= config.requestTimeout

\* request id may fail now: an abort needs its timer to have fired
MayFail(id, outcome) ==
    /\ id \in 1..Len(calls)
    /\ calls[id].st = "executing"
    /\ outcome = "abort" => now - calls[id].startTime >= config.requestTimeout

requestFails(id, outcome) ==
    /\ MayFail(id, outcome)
    /\ \E s2 \in {failed(State, id, outcome)} : Becomes(Finally(s2, id, now))
    /\ UNCHANGED <<now, config>>

\* cacheResponse after "await responseClone.text()", then the rest of executeRequest
\* the body was read and "content.length > this.config.maxContentLength" is false
\* faulty variant: the length of the body is not compared
CacheableAnyLength(length) == length # ReadFails

Cacheable(length) == length # ReadFails /\ ~(length > config.maxContentLength)

cacheResponse(c, k, length, t) ==
    IF Cacheable(length) THEN LruSet(c, k, t, t) ELSE c

\* faulty variant: a body read that fails while caching fails the request
succeededOrThrows(s, id, length, t) ==
    IF length = ReadFails THEN failed(s, id, "error")
    ELSE [s EXCEPT !.cache = cacheResponse(@, s.calls[id].key, length, t),
                   !.metrics = updateMetrics(@, "success", t - s.calls[id].startTime),
                   !.calls[id].st = "done",
                   !.calls[id].startTime = 0,
                   !.calls[id].res = OwnResult("ok")]

\* the request at "return response"
succeeded(s, id, length, t) ==
    [s EXCEPT !.cache = cacheResponse(@, s.calls[id].key, length, t),
              !.metrics = updateMetrics(@, "success", t - s.calls[id].startTime),
              !.calls[id].st = "done",
              !.calls[id].startTime = 0,
              !.calls[id].res = OwnResult("ok")]

requestSucceeds(id, length) ==
    /\ id \in 1..Len(calls)
    /\ calls[id].st = "caching"
    /\ \E s1 \in {succeeded(State, id, length, now)} : Becomes(Finally(s1, id, now))
    /\ UNCHANGED <<now, config>>

\* faulty variant: the entry used last stays
clearCacheKeepsOne ==
    /\ cache' = IF Len(cache) = 0 THEN <<>> ELSE <<cache[Len(cache)]>>
    /\ UNCHANGED <<now, activeRequests, requestQueue, activeRequestCount, metrics, config, calls>>

clearCache ==
    /\ cache' = <<>>
    /\ UNCHANGED <<now, activeRequests, requestQueue, activeRequestCount, metrics, config, calls>>

\* faulty variant: the cache is cleared too
resetMetricsAndCache ==
    /\ metrics' = freshMetrics(now)
    /\ cache' = <<>>
    /\ UNCHANGED <<now, activeRequests, requestQueue, activeRequestCount, config, calls>>

resetMetrics ==
    /\ metrics' = freshMetrics(now)
    /\ UNCHANGED <<now, cache, activeRequests, requestQueue, activeRequestCount, config, calls>>

Tick(maxTicks) ==
    /\ now + TickMs <= maxTicks * TickMs
    /\ now' = now + TickMs
    /\ UNCHANGED <<cache, activeRequests, requestQueue, activeRequestCount, metrics, config, calls>>

\* ---------------------------------------------------------------- observers
\* the events since the last resetMetrics; clean: no call was unsettled at that reset
freshTally(clean) ==
    [hits |-> 0, successes |-> 0, failures |-> 0, latency |-> 0, clean |-> clean]

\* key k becomes the most recently used
Touch(r, k) == SelectSeq(r, LAMBDA x : x # k) \o <<k>>

\* the client read k from the cache (a hit) or wrote it (cache.set), if did
Accessed(k, did) ==
    /\ recency' = IF did THEN Touch(recency, k) ELSE recency
    /\ UNCHANGED <<oversize, tally, aside>>

\* the body call id read has the given length
BodyRead(id, length) ==
    /\ oversize' = IF length # ReadFails /\ length > config.maxContentLength
                   THEN oversize \cup {id} ELSE oversize
    /\ UNCHANGED <<recency, tally, aside>>

\* one more cache hit, failed fetch or successful fetch
Tallied(event, responseTime) ==
    /\ tally' = CASE event = "cache_hit" -> [tally EXCEPT !.hits = @ + 1]
                  [] event = "error" -> [tally EXCEPT !.failures = @ + 1]
                  [] event = "success" -> [tally EXCEPT !.successes = @ + 1,
                                                        !.latency = @ + responseTime]
                  [] OTHER -> tally
    /\ UNCHANGED <<recency, oversize, aside>>

\* nothing seen yet
freshSeen ==
    [thrown |-> {}, unread |-> {}, rejected |-> {}, stored |-> {},
     requests |-> <<>>, keys |-> <<>>, timers |-> <<>>]

\* the client is used on its own
NoServer == [status |-> "none"]

\* no request is inside its finally block
Idle == [id |-> 0, line |-> 0]

\* new HttpClient(config)
NewHttpClient(cfg) ==
    /\ now = 0
    /\ cache = <<>>
    /\ activeRequests = [k \in Keys |-> NoPromise]
    /\ requestQueue = <<>>
    /\ activeRequestCount = 0
    /\ metrics = freshMetrics(0)
    /\ config = cfg
    /\ calls = <<>>
    /\ recency = <<>>
    /\ oversize = {}
    /\ tally = freshTally(TRUE)
    /\ seen = freshSeen
    /\ pc = Idle

\* the client constructed on its own
Constructed(cfg) ==
    /\ NewHttpClient(cfg)
    /\ server = NoServer

\* the network operation of request id settles
networkSettles(id) ==
    \/ responseOk(id)
    \/ \E o \in {"notok", "error", "abort"} : requestFails(id, o)

\* the body read of request id settles
bodySettles(id) == \E n \in BodyLengths \cup {ReadFails} : requestSucceeds(id, n)

Settle ==
    \/ \E id \in 1..Len(calls) : networkSettles(id)
    \/ \E id \in 1..Len(calls) : bodySettles(id)

Init == \E m \in {1, 2} : Constructed(Config(m, 1))

Next ==
    \/ (\E k \in Keys : fetch(k, MaxCalls)) /\ UNCHANGED observed
    \/ Settle /\ UNCHANGED observed
    \/ clearCache /\ UNCHANGED observed
    \/ Tick(MaxTicks) /\ UNCHANGED observed

Spec == Init /\ [][Next]_vars

\* a larger client: two slots, two cache entries, three keys
InitWide == Constructed(Config(2, 2))

NextWide ==
    \/ (\E k \in Keys : fetch(k, MaxCallsWide)) /\ UNCHANGED observed
    \/ Settle /\ UNCHANGED observed
    \/ clearCache /\ UNCHANGED observed
    \/ Tick(MaxTicksWide) /\ UNCHANGED observed

SpecWide == InitWide /\ [][NextWide]_vars

\* one slot, one cache entry, two keys, a clock that runs past the TTL
InitTTL == Constructed(Config(1, 1))

NextTTL ==
    \/ (\E k \in KeysTTL : fetch(k, MaxCallsTTL)) /\ UNCHANGED observed
    \/ Settle /\ UNCHANGED observed
    \/ clearCache /\ UNCHANGED observed
    \/ Tick(MaxTicksTTL) /\ UNCHANGED observed

SpecTTL == InitTTL /\ [][NextTTL]_vars

\* the scheduler alone, at one instant of the clock: calls arrive, and every
\* network operation and every body read that has started settles
Fairness == WF_vars(Settle /\ UNCHANGED observed)

NextFair ==
    \/ (\E k \in Keys : fetch(k, MaxCallsFair)) /\ UNCHANGED observed
    \/ Settle /\ UNCHANGED observed

SpecFair == Init /\ [][NextFair]_vars /\ Fairness

\* the client with its metrics reset at any moment
NextMetrics ==
    \/ (\E k \in KeysTTL : fetch(k, MaxCallsMetrics)) /\ UNCHANGED observed
    \/ Settle /\ UNCHANGED observed
    \/ clearCache /\ UNCHANGED observed
    \/ resetMetrics /\ UNCHANGED observed
    \/ Tick(MaxTicksMetrics) /\ UNCHANGED observed

SpecMetrics == Init /\ [][NextMetrics]_vars

\* whether the call just issued was served from the cache
IsHit(cs) == cs[Len(cs)].role = "hit"

\* one slot, two cache entries, three keys; the order of the accesses observed
InitLru == Constructed(Config(1, 2))

NextLru ==
    \/ \E k \in Keys : fetch(k, MaxCallsLru) /\ Accessed(k, IsHit(calls'))
    \/ (\E id \in 1..Len(calls) : networkSettles(id)) /\ UNCHANGED observed
    \/ \E id \in 1..Len(calls) : \E n \in BodyLengths \cup {ReadFails} :
            requestSucceeds(id, n) /\ Accessed(calls[id].key, Cacheable(n))
    \/ clearCache /\ recency' = <<>> /\ UNCHANGED <<oversize, tally, aside>>

SpecLru == InitLru /\ [][NextLru]_vars

\* one slot, one cache entry, two keys; the length of every body read observed
NextCap ==
    \/ (\E k \in KeysTTL : fetch(k, MaxCallsCap)) /\ UNCHANGED observed
    \/ (\E id \in 1..Len(calls) : networkSettles(id)) /\ UNCHANGED observed
    \/ \E id \in 1..Len(calls) : \E n \in BodyLengths \cup {ReadFails} :
            requestSucceeds(id, n) /\ BodyRead(id, n)
    \/ clearCache /\ UNCHANGED observed

SpecCap == InitTTL /\ [][NextCap]_vars

\* one slot, one cache entry, two keys, metrics reset at any moment; the hits,
\* successes and failures since the last reset observed
NextTally ==
    \/ \E k \in KeysTTL : fetch(k, MaxCallsTally)
            /\ Tallied(IF IsHit(calls') THEN "cache_hit" ELSE "none", 0)
    \/ (\E id \in 1..Len(calls) : responseOk(id)) /\ UNCHANGED observed
    \/ \E id \in 1..Len(calls) : \E o \in {"notok", "error", "abort"} :
            requestFails(id, o) /\ Tallied("error", 0)
    \/ \E id \in 1..Len(calls) : \E n \in BodyLengths \cup {ReadFails} :
            requestSucceeds(id, n) /\ Tallied("success", now - calls[id].startTime)
    \/ clearCache /\ UNCHANGED observed
    \/ /\ resetMetrics
       /\ tally' = freshTally(\A c \in 1..Len(calls) : calls[c].st = "done")
       /\ UNCHANGED <<recency, oversize, aside>>
    \/ Tick(MaxTicksTally) /\ UNCHANGED observed

SpecTally == InitTTL /\ [][NextTally]_vars

\* ---------------------------------------------------------------- properties
Ids == 1..Len(calls)

\* the requests in the EXECUTING state: started and not yet through finally
Executing == {c \in Ids : calls[c].st \in {"executing", "caching"}}

Failed(c) == calls[c].res \in {"NetworkError", "TimeoutError", "AbortError", "FetchError"}

\* C1: of the calls for one cache key that are issued before the first of them
\* settles, no two start a network operation of their own.
C1_OneNetworkOperation ==
    \A c, d \in Ids :
        c \in calls[d].pending => ~(calls[c].started /\ calls[d].started)

\* C2: once a caller that joined an in-flight fetch and the initiator of that
\* fetch have both settled, the joiner has failed exactly if the initiator has.
C2_JoinersShareOutcome ==
    \A d \in Ids :
        (calls[d].role = "join" /\ calls[d].st = "done" /\ calls[calls[d].via].st = "done")
            => (Failed(d) <=> Failed(calls[d].via))

\* C3: the number of requests in the EXECUTING state never exceeds
\* maxConcurrentRequests.
C3_ConcurrencyBound == Cardinality(Executing) <= config.maxConcurrentRequests

C3_Witness ==
    /\ config.maxConcurrentRequests = 2
    /\ Cardinality(Executing) = 2
    /\ Len(requestQueue) > 0

\* C4: of two requests that waited in the admission queue, the one enqueued
\* later has started executing only if the one enqueued earlier has.
C4_QueueIsFIFO ==
    \A x, y \in Ids :
        (x < y /\ calls[x].role = "queue" /\ calls[y].role = "queue" /\ calls[y].started)
            => calls[x].started

C4_Witness ==
    \E x, y \in Ids :
        /\ x < y
        /\ calls[x].role = "queue" /\ calls[x].started
        /\ calls[y].role = "queue" /\ calls[y].st = "queued"

\* C5: under SpecFair, where every executing operation settles, every request
\* that was placed in the admission queue is started and settled from some
\* point on (a call, once settled, stays settled, and a behaviour holds
\* finitely many calls).
C5_NoStarvation ==
    <>[](\A c \in Ids :
            calls[c].role = "queue"
                => (calls[c].started /\ calls[c].st = "done" /\ calls[c].res # "none"))

C5_Witness ==
    \E c \in Ids :
        calls[c].role = "queue" /\ calls[c].st = "done" /\ calls[c].res # "none"

\* C6: at most one fetch per cache key is executing; a registry entry stands
\* for an executing fetch of its key and every executing fetch has its entry;
\* with nothing executing or queued the registry is empty.
C6_OnePendingFetchPerKey ==
    /\ \A c, d \in Executing : calls[c].key = calls[d].key => c = d
    /\ \A c \in Executing : activeRequests[calls[c].key] = c
    /\ \A k \in Keys : activeRequests[k] # NoPromise => activeRequests[k] \in Executing
    /\ (Executing = {} /\ requestQueue = <<>>)
            => \A k \in Keys : activeRequests[k] = NoPromise

\* C7: a call for a key whose first caller (one that neither hit the cache nor
\* joined) has not settled yet joins that caller's in-flight handle.
C7_SecondCallerJoins ==
    \A d \in Ids : \A c \in calls[d].pending :
        calls[c].role \in {"run", "queue"} => calls[d].role = "join"

TTLms == config.cacheTTL * MsPerSec

\* C8 as claimed: a lookup that finds the entry in the store is a hit exactly
\* if it happens strictly before timestamp + TTL.
C8_ExpiresAtTTL ==
    \A c \in Ids :
        calls[c].age # NoEntry => (calls[c].role = "hit" <=> calls[c].age < TTLms)

\* C8 amended: a lookup that finds the entry in the store is a hit exactly if
\* it happens no later than timestamp + TTL, and a miss after that instant.
C8_ExpiresAfterTTL ==
    \A c \in Ids :
        calls[c].age # NoEntry => (calls[c].role = "hit" <=> calls[c].age <= TTLms)

C8_Witness ==
    /\ \E c \in Ids : calls[c].age = TTLms /\ calls[c].role = "hit"
    /\ \E c \in Ids : calls[c].age > TTLms /\ calls[c].role # "hit"

\* C9: a lookup returns absent exactly when the key is unknown or the entry is
\* older than the TTL; the lookup of an expired entry removes it and a lookup
\* that hits removes nothing.
C9_LazyExpiry ==
    \A c \in Ids :
        /\ calls[c].role # "hit" <=> (calls[c].age = NoEntry \/ calls[c].age > TTLms)
        /\ calls[c].age > TTLms => calls[c].removed
        /\ calls[c].role = "hit" => ~calls[c].removed /\ calls[c].age # NoEntry

C9_Witness ==
    /\ \E c \in Ids : calls[c].age > TTLms /\ calls[c].removed
    /\ \E c \in Ids : calls[c].role = "hit" /\ ~calls[c].removed

\* C10: the cache store never holds more than maxCacheSize entries.
C10_CacheBound == Len(cache) <= config.maxCacheSize

\* the cache is full, and of two requests that fetched different keys with
\* success the later one's key is in the store and the earlier one's is not
C10_Witness ==
    /\ Len(cache) = config.maxCacheSize
    /\ \E c, d \in Ids :
        /\ c < d
        /\ calls[c].started /\ calls[c].res = "Response"
        /\ calls[d].started /\ calls[d].res = "Response"
        /\ LruIndex(cache, calls[c].key) = 0
        /\ LruIndex(cache, calls[d].key) # 0

\* the keys the cache holds
CachedKeys(c) == {c[i].key : i \in 1..Len(c)}

Position(r, k) == CHOOSE i \in 1..Len(r) : r[i] = k

\* of the keys the cache holds, the one the client used longest ago
LeastRecentlyUsed(c, r) ==
    CHOOSE k \in CachedKeys(c) : \A j \in CachedKeys(c) : Position(r, k) <= Position(r, j)

\* C11: a step that stores a key the full cache does not hold removes exactly
\* the key that was stored or hit longest ago, and no other; a key that was
\* hit since it was stored counts from the hit.
C11_EvictsLeastRecentlyUsed ==
    [][\A k \in Keys :
          (Len(cache) = config.maxCacheSize /\ k \notin CachedKeys(cache)
              /\ k \in CachedKeys(cache'))
          => CachedKeys(cache') =
                (CachedKeys(cache) \ {LeastRecentlyUsed(cache, recency)}) \cup {k}]_vars

\* x and y were stored in this order, x was hit, then z was stored: y is gone
C11_Witness ==
    /\ config.maxConcurrentRequests = 1
    /\ Len(calls) = 4
    /\ calls[1].key # calls[2].key
    /\ calls[3].key = calls[1].key /\ calls[3].role = "hit"
    /\ calls[4].key \notin {calls[1].key, calls[2].key}
    /\ recency = <<calls[2].key, calls[1].key, calls[4].key>>
    /\ CachedKeys(cache) = {calls[1].key, calls[4].key}

\* C12: the step in which a request reads a body longer than maxContentLength
\* leaves the cache as it was and returns the response to the request's caller.
C12_OversizeNotCached ==
    [][\A c \in oversize' \ oversize :
          /\ cache' = cache
          /\ calls'[c].st = "done"
          /\ calls'[c].res = "Response"]_vars

\* an oversize response was returned, and a later call for its key, issued
\* with no call for the key unsettled, found no entry and fetched again
C12_Witness ==
    \E c \in oversize : \E d \in Ids :
        /\ calls[c].res = "Response" /\ calls[c].started
        /\ d > c /\ calls[d].key = calls[c].key
        /\ calls[d].pending = {} /\ calls[d].age = NoEntry /\ calls[d].role = "run"

\* C13: a call that finds an entry younger than the TTL is a cache hit settled
\* in the call itself: it gets the cached response, the hit rate it leaves is
\* positive, no request is started or counted, the executing count, the queue
\* and the registry stay as they were, and no other call changes.
C13_CacheHitIsTerminal ==
    [][(Len(calls') = Len(calls) + 1
            /\ calls'[Len(calls')].age # NoEntry /\ calls'[Len(calls')].age < TTLms)
        => /\ calls'[Len(calls')].role = "hit"
           /\ calls'[Len(calls')].st = "done"
           /\ calls'[Len(calls')].res = "Response"
           /\ ~calls'[Len(calls')].started
           /\ metrics'.cacheHitRate.n > 0 /\ metrics'.cacheHitRate.d > 0
           /\ metrics'.requestCount = metrics.requestCount
           /\ activeRequestCount' = activeRequestCount
           /\ requestQueue' = requestQueue
           /\ activeRequests' = activeRequests
           /\ \A c \in Ids : calls'[c] = calls[c]]_vars

\* a key was fetched with success, and a later call for it was a hit
C13_Witness ==
    \E c, d \in Ids :
        /\ c < d /\ calls[c].key = calls[d].key
        /\ calls[c].started /\ calls[c].res = "Response"
        /\ calls[d].role = "hit" /\ ~calls[d].started
        /\ calls[d].age # NoEntry /\ calls[d].age < TTLms
        /\ \A e \in Ids : calls[e].started => e = c

\* every call has settled
Settled == \A c \in Ids : calls[c].st = "done"

\* the events since the last reset are cache hits, successful fetches and
\* failed fetches, all of them complete
Counted == tally.clean /\ Settled /\ \A c \in Ids : calls[c].role # "join"

Requests == tally.hits + tally.successes + tally.failures

\* C14: cacheHitRate is the number of cache hits since the last reset over the
\* number of requests since then, cache hits included.
C14_CacheHitRate ==
    (Counted /\ Requests > 0) => metrics.cacheHitRate = Frac(tally.hits, Requests)

\* C15: errorRate is the number of failed fetches since the last reset over the
\* number of requests since then, cache hits included.
C15_ErrorRate ==
    (Counted /\ Requests > 0) => metrics.errorRate = Frac(tally.failures, Requests)

\* C16: averageResponseTime is the sum of the latencies of the successful
\* fetches since the last reset over their number, whatever failed fetches and
\* cache hits happened among them.
C16_MeanSuccessLatency ==
    (Counted /\ tally.successes > 0)
        => metrics.averageResponseTime = Frac(tally.latency, tally.successes)

\* a step of resetMetrics: the only handler that lowers requestCount or
\* assigns lastReset
IsReset == metrics'.requestCount < metrics.requestCount \/ metrics'.lastReset # metrics.lastReset

\* C17: whenever one successful fetch of latency L and one cache hit are all
\* that happened since the last reset, cacheHitRate is 1/2 and
\* averageResponseTime is L; a reset sets both to 0 and does not move
\* lastReset back.
C17_MetricsScenario ==
    [][/\ (Counted' /\ tally'.hits = 1 /\ tally'.successes = 1 /\ tally'.failures = 0)
           => /\ metrics'.cacheHitRate = Frac(1, 2)
              /\ metrics'.averageResponseTime = Num(tally'.latency)
       /\ IsReset
           => /\ metrics'.cacheHitRate = Num(0)
              /\ metrics'.averageResponseTime = Num(0)
              /\ metrics'.lastReset >= metrics.lastReset]_vars

\* C18: a step of resetMetrics leaves requestCount, cacheHitRate,
\* averageResponseTime and errorRate 0 and does not change the cache, the
\* registry of in-flight requests, the queue or the executing count.
C18_ResetFrame ==
    [][IsReset
        => /\ metrics'.requestCount = 0
           /\ metrics'.cacheHitRate = Num(0)
           /\ metrics'.averageResponseTime = Num(0)
           /\ metrics'.errorRate = Num(0)
           /\ cache' = cache
           /\ activeRequests' = activeRequests
           /\ requestQueue' = requestQueue
           /\ activeRequestCount' = activeRequestCount]_vars

\* the metrics were reset after a request had started, with an entry in the
\* cache, a request executing, its registry entry and a request queued
C18_Witness ==
    /\ metrics.requestCount = 0
    /\ \E c \in Ids : calls[c].started
    /\ Len(cache) > 0
    /\ activeRequestCount > 0
    /\ Len(requestQueue) > 0
    /\ \E k \in Keys : activeRequests[k] # NoPromise

\* C19: no caller gets the raw error of the transport layer.
C19_TypedFailures ==
    \A c \in Ids : calls[c].res \notin {"AbortError", "FetchError"}

\* C20: a caller joined to a request that timed out gets the TimeoutError the
\* request's own caller gets.
C20_JoinersSeeTimeout ==
    \A d \in Ids :
        (calls[d].role = "join" /\ calls[d].st = "done"
            /\ calls[calls[d].via].res = "TimeoutError")
        => calls[d].res = "TimeoutError"

\* C29: while a request waits in the admission queue its key is in the
\* registry of requests in flight.
C29_QueuedIsRegistered ==
    \A c \in Ids : calls[c].st = "queued" => activeRequests[calls[c].key] # NoPromise

\* ---------------------------------------------------------------- errors
NoStatus == 0                 \* statusCode === undefined
Statuses == {404, 503}        \* response.status of a response that is not ok

WebContentError(message, code, url, statusCode) ==
    [name |-> "WebContentError", message |-> message, code |-> code, url |-> url,
     statusCode |-> statusCode]

NetworkError(message, url, statusCode) ==
    [WebContentError(message, "NETWORK_ERROR", url, statusCode) EXCEPT !.name = "NetworkError"]

ParseError(message, url) ==
    [WebContentError(message, "PARSE_ERROR", url, NoStatus) EXCEPT !.name = "ParseError"]

TimeoutError(message, url) ==
    [WebContentError(message, "TIMEOUT_ERROR", url, NoStatus) EXCEPT !.name = "TimeoutError"]

\* a message: the literal parts of its template, outermost first, and the url
\* and the number interpolated in it
Message(template, url, number) ==
    [template |-> <<template>>, url |-> url, number |-> number]

\* `${prefix}${error.message}`
Prefixed(prefix, message) == [message EXCEPT !.template = <<prefix>> \o @]

\* the errors of the transport layer: their message names the url
AbortError(url) ==
    [name |-> "AbortError", message |-> Message("The user aborted a request.", "", 0),
     code |-> "", url |-> "", statusCode |-> NoStatus]

FetchError(url, code) ==
    [name |-> "FetchError",
     message |-> Message("request to ${url} failed, reason: ${code}", url, 0),
     code |-> code, url |-> "", statusCode |-> NoStatus]

\* what executeRequest throws to its own caller
Thrown(outcome, status, url) ==
    CASE outcome = "notok" ->
            NetworkError(Message("HTTP ${status}: ${statusText}", "", status), url, status)
      [] outcome = "abort" ->
            TimeoutError(Message("Request timeout after ${timeout}ms", "",
                                 config.requestTimeout), url)
      [] OTHER ->
            NetworkError(Prefixed("Network request failed: ",
                                  FetchError(url, "ECONNRESET").message), url, NoStatus)

\* ---------------------------------------------------------------- the answers observed
\* request id threw: the status of the response it had, and the error
Threw(id, outcome, status) ==
    /\ seen' = [seen EXCEPT !.thrown = @ \cup
                    {[id |-> id, status |-> status,
                      error |-> Thrown(outcome, status, calls[id].key)]}]
    /\ UNCHANGED <<recency, oversize, tally, server, pc>>

\* request id returned its response: the body read failed, or the body was read
\* and the key has had a successful fetch since the cache was last cleared
Answered(id, length) ==
    /\ seen' = IF length = ReadFails
               THEN [seen EXCEPT !.unread = @ \cup {id}]
               ELSE [seen EXCEPT !.stored = @ \cup {calls[id].key}]
    /\ UNCHANGED <<recency, oversize, tally, server, pc>>

\* the cache was cleared: no key has had a successful fetch since
Cleared ==
    /\ seen' = [seen EXCEPT !.stored = {}]
    /\ UNCHANGED <<recency, oversize, tally, server, pc>>

\* one slot, one cache entry, two keys; what the requests threw and what they
\* were answered observed
NextSeen ==
    \/ (\E k \in KeysTTL : fetch(k, MaxCallsSeen)) /\ UNCHANGED observed
    \/ (\E id \in 1..Len(calls) : responseOk(id)) /\ UNCHANGED observed
    \/ \E id \in 1..Len(calls) : \E status \in Statuses :
            requestFails(id, "notok") /\ Threw(id, "notok", status)
    \/ \E id \in 1..Len(calls) : \E o \in {"error", "abort"} :
            requestFails(id, o) /\ Threw(id, o, NoStatus)
    \/ \E id \in 1..Len(calls) : \E n \in BodyLengths \cup {ReadFails} :
            requestSucceeds(id, n) /\ Answered(id, n)
    \/ clearCache /\ Cleared
    \/ Tick(MaxTicksSeen) /\ UNCHANGED observed

SpecSeen == InitTTL /\ [][NextSeen]_vars

\* C21: a request whose response has a status that is not a success throws
\* a NetworkError that carries that status to its caller; the step stores
\* nothing in the cache and leaves a positive error rate and the mean latency
\* of the successes as it was.
C21_NotOkIsNetworkError ==
    [][\A e \in seen'.thrown \ seen.thrown :
            e.status # NoStatus =>
                /\ e.error.name = "NetworkError"
                /\ e.error.code = "NETWORK_ERROR"
                /\ e.error.statusCode = e.status
                /\ calls'[e.id].st = "done"
                /\ calls'[e.id].res = e.error.name
                /\ cache' = cache
                /\ metrics'.errorRate.n > 0
                /\ metrics'.averageResponseTime = metrics.averageResponseTime]_vars

\* a request was answered 404 while the cache held an entry and a second
\* request was waiting; it is done with a NetworkError
C21_Witness ==
    \E e \in seen.thrown :
        /\ e.status = 404
        /\ calls[e.id].res = "NetworkError"
        /\ Len(cache) > 0
        /\ \E c \in Ids : c > e.id /\ calls[c].started

\* C22: a request whose body cannot be read while it is cached returns its
\* response all the same; the step leaves the error rate as it was and
\* stores nothing in the cache.
C22_CachingIsBestEffort ==
    [][\A id \in seen'.unread \ seen.unread :
            /\ calls'[id].st = "done"
            /\ calls'[id].res = "Response"
            /\ metrics'.errorRate = metrics.errorRate
            /\ cache' = cache]_vars

\* a body read failed, the request returned its response, and the next call
\* for its key found no entry and ran a request of its own
C22_Witness ==
    \E id \in seen.unread : \E c \in Ids :
        /\ calls[id].res = "Response"
        /\ c > id
        /\ calls[c].key = calls[id].key
        /\ calls[c].age = NoEntry
        /\ calls[c].started
        /\ metrics.errorRate = Num(0)

\* C28: after clearCache the cache holds no entry, and no call is a cache hit,
\* until a fetch has succeeded: the cache holds only keys fetched with success
\* since the cache was last cleared, and only such keys are hit.
C28_ClearedUntilStored ==
    [][/\ CachedKeys(cache') \subseteq seen'.stored
       /\ Len(calls') > Len(calls) /\ calls'[Len(calls')].role = "hit"
            => calls'[Len(calls')].key \in seen.stored]_vars

\* a key was fetched and hit, the cache was cleared, and the next call for the
\* key found no entry and ran a request of its own
C28_Witness ==
    \E c, d \in Ids :
        /\ c < d
        /\ calls[c].key = calls[d].key
        /\ calls[c].role = "hit"
        /\ calls[d].age = NoEntry
        /\ calls[d].started
        /\ seen.stored = {}
        /\ cache = <<>>

\* ---------------------------------------------------------------- ContentProcessor
NoHeader == 0 - 1             \* response.headers.get(...) === null

\* content-type headers, in the parts String.includes looks for
ContentTypes ==
    {<<>>, <<"text/html">>, <<"text/html", "; charset=utf-8">>,
     <<"application/xhtml", "+xml">>, <<"application/json">>}

\* the headers of a response: content-type and content-length
Responses == [contentType : ContentTypes, contentLength : {NoHeader, 1, 2}]

\* contentType.includes(part)
Includes(contentType, part) == \E i \in 1..Len(contentType) : contentType[i] = part

validateContent(response) ==
    LET contentType == response.contentType
        contentLength == IF response.contentLength = NoHeader THEN 0
                         ELSE response.contentLength
    IN  IF ~Includes(contentType, "text/html") /\ ~Includes(contentType, "application/xhtml")
        THEN FALSE
        ELSE IF contentLength > config.maxContentLength THEN FALSE
        ELSE TRUE

\* handleFetchPageContent has the response of request id validated
Validated(id, response) ==
    /\ seen' = IF validateContent(response) THEN seen
               ELSE [seen EXCEPT !.rejected = @ \cup {id}]
    /\ UNCHANGED <<recency, oversize, tally, server, pc>>

\* the fetches of handleFetchPageContent: one slot, one cache entry, two keys;
\* the responses the validator rejects observed
NextValid ==
    \/ (\E k \in KeysTTL : fetch(k, MaxCallsValid)) /\ UNCHANGED observed
    \/ (\E id \in 1..Len(calls) : networkSettles(id)) /\ UNCHANGED observed
    \/ \E id \in 1..Len(calls) : \E n \in BodyLengths \cup {ReadFails} :
       \E response \in Responses :
            requestSucceeds(id, n) /\ Validated(id, response)

SpecValid == InitTTL /\ [][NextValid]_vars

\* C23: the step in which a request returns a response that the validator
\* rejects stores nothing in the cache.
C23_RejectedIsNotCached ==
    [][\A id \in seen'.rejected \ seen.rejected : cache' = cache]_vars

\* ---------------------------------------------------------------- cache keys
Undefined == "undefined"      \* an option the caller left out

\* header objects, as their entries in the order they were written
HeaderObjects ==
    {<<>>,
     <<<<"accept", "text/html">>>>,
     <<<<"accept", "text/plain">>>>,
     <<<<"x-id", "1">>>>,
     <<<<"accept", "text/html">>, <<"x-id", "1">>>>,
     <<<<"x-id", "1">>, <<"accept", "text/html">>>>}

\* options.headers === undefined
NoHeaders == [defined |-> FALSE, entries |-> <<>>]

Urls == {"http://u", "http://v"}

\* the (url, options) of a call of fetch(); numbers as their decimal text
FetchRequests ==
    [url : Urls,
     headers : [defined : {TRUE}, entries : HeaderObjects] \cup {NoHeaders},
     followRedirects : {Undefined, "true", "false"},
     maxRedirects : {Undefined, "3", "5"}]

\* a member of an object literal
Member(name, value, defined) == [name |-> name, value |-> value, defined |-> defined]

\* JSON.stringify of an object: the members whose value is not undefined, in
\* the order they were written
Stringify(members) ==
    LET kept == SelectSeq(members, LAMBDA m : m.defined)
    IN  [i \in 1..Len(kept) |-> <<kept[i].name, kept[i].value>>]

\* Buffer.from(text).toString('base64')
Base64(text) == [base64 |-> text]

\* "options.headers || {}", stringified
HeadersText(headers) ==
    LET object == IF headers.defined THEN headers.entries ELSE <<>>
    IN  Stringify([i \in 1..Len(object) |-> Member(object[i][1], object[i][2], TRUE)])

\* faulty variant: maxRedirects is left out of the key
getCacheKeyNoMaxRedirects(url, options) ==
    LET optionsHash == Stringify(<<
            Member("headers", HeadersText(options.headers), TRUE),
            Member("followRedirects", options.followRedirects,
                   options.followRedirects # Undefined)>>)
    IN  <<url, ":", Base64(optionsHash)>>

getCacheKey(url, options) ==
    LET optionsHash == Stringify(<<
            Member("headers", HeadersText(options.headers), TRUE),
            Member("followRedirects", options.followRedirects,
                   options.followRedirects # Undefined),
            Member("maxRedirects", options.maxRedirects,
                   options.maxRedirects # Undefined)>>)
    IN  <<url, ":", Base64(optionsHash)>>

\* the request executeRequest sends for (url, options): the custom headers as
\* a map, the redirect policy and the redirect limit with their defaults
Effective(r) ==
    [url |-> r.url,
     headers |-> IF r.headers.defined
                 THEN {r.headers.entries[i] : i \in 1..Len(r.headers.entries)}
                 ELSE {},
     followRedirects |-> IF r.followRedirects # "false" THEN "follow" ELSE "manual",
     maxRedirects |-> IF r.maxRedirects = Undefined THEN "5" ELSE r.maxRedirects]

\* fetch() computes the cache key of request r
hashes(r) ==
    /\ Len(seen.requests) < MaxRequests
    /\ seen' = [seen EXCEPT !.requests = Append(@, r),
                            !.keys = Append(@, getCacheKey(r.url, r))]
    /\ UNCHANGED <<now, cache, activeRequests, requestQueue, activeRequestCount, metrics,
                   config, calls, recency, oversize, tally, server, pc>>

\* getCacheKey on its own: the keys of the requests made
NextKey == \E r \in FetchRequests : hashes(r)

SpecKey == InitTTL /\ [][NextKey]_vars

\* C24: two requests that are sent as the same request have the same cache key.
C24_SameRequestSameKey ==
    \A i, j \in 1..Len(seen.requests) :
        Effective(seen.requests[i]) = Effective(seen.requests[j])
            => seen.keys[i] = seen.keys[j]

\* C25: two requests that differ in url, in custom headers, in redirect policy
\* or in redirect limit have different cache keys.
C25_DifferentRequestDifferentKey ==
    \A i, j \in 1..Len(seen.requests) :
        Effective(seen.requests[i]) # Effective(seen.requests[j])
            => seen.keys[i] # seen.keys[j]

\* two requests that differ in the redirect limit alone, with two custom
\* headers each, have got their keys
C25_Witness ==
    /\ Len(seen.requests) = 2
    /\ seen.requests[1].maxRedirects = "3"
    /\ seen.requests[2] = [seen.requests[1] EXCEPT !.maxRedirects = "5"]
    /\ Len(seen.requests[1].headers.entries) = 2
    /\ seen.keys[1] # seen.keys[2]

\* ---------------------------------------------------------------- configuration of the server
\* the numeric fields of ConfigSchema: z.number().min(..).max(..).default(..)
Ranges ==
    [maxConcurrentRequests |-> [min |-> 1, max |-> 10, default |-> 3],
     requestTimeout |-> [min |-> 1000, max |-> 30000, default |-> 10000],
     maxCacheSize |-> [min |-> 10, max |-> 1000, default |-> 100],
     cacheTTL |-> [min |-> 60, max |-> 86400, default |-> 3600],
     maxContentLength |-> [min |-> 1024, max |-> 10485760, default |-> 2097152]]

ConfigFields == DOMAIN Ranges

\* a field the Partial<Config> leaves out
Unset == [set |-> FALSE, value |-> 0]

\* what a Partial<Config> may give for field f: nothing, the ends of the range
\* and their neighbours outside it
Choices(f) ==
    {Unset} \cup {[set |-> TRUE, value |-> v] :
                    v \in {Ranges[f].min - 1, Ranges[f].min, Ranges[f].max, Ranges[f].max + 1}}

PartialConfigs ==
    [maxConcurrentRequests : Choices("maxConcurrentRequests"),
     requestTimeout : Choices("requestTimeout"),
     maxCacheSize : Choices("maxCacheSize"),
     cacheTTL : Choices("cacheTTL"),
     maxContentLength : Choices("maxContentLength")]

\* no configuration: the server is not constructed
NoConfig == [f \in ConfigFields |-> 0]

\* .min(..).max(..) of field f refuses the value
Refused(f, x) == x.set /\ (x.value < Ranges[f].min \/ x.value > Ranges[f].max)

\* faulty variant: a value outside the range is moved to the nearest end
ConfigSchemaClamp(input) ==
    [ok |-> TRUE,
     config |-> [f \in ConfigFields |->
                    IF ~input[f].set THEN Ranges[f].default
                    ELSE IF input[f].value < Ranges[f].min THEN Ranges[f].min
                    ELSE IF input[f].value > Ranges[f].max THEN Ranges[f].max
                    ELSE input[f].value]]

\* ConfigSchema.parse(config): the Config, or a ZodError
ConfigSchemaParse(input) ==
    IF \E f \in ConfigFields : Refused(f, input[f])
    THEN [ok |-> FALSE, config |-> NoConfig]
    ELSE [ok |-> TRUE,
          config |-> [f \in ConfigFields |->
                        IF input[f].set THEN input[f].value ELSE Ranges[f].default]]

\* main() before "new WebContentMcpServer(config)"
InitConfig ==
    /\ NewHttpClient(NoConfig)
    /\ server = [status |-> "new", input |-> [f \in ConfigFields |-> Unset]]

\* new WebContentMcpServer(input): the configuration is parsed, and the client
\* is made with it unless the parse threw
construct(input) ==
    /\ server.status = "new"
    /\ \E parsed \in {ConfigSchemaParse(input)} :
            IF parsed.ok
            THEN /\ config' = parsed.config
                 /\ server' = [status |-> "constructed", input |-> input]
            ELSE /\ config' = config
                 /\ server' = [status |-> "threw", input |-> input]
    /\ UNCHANGED <<now, cache, activeRequests, requestQueue, activeRequestCount, metrics,
                   calls, recency, oversize, tally, seen, pc>>

\* the server is constructed from any partial configuration, and its client
\* then serves fetches
NextConfig ==
    \/ \E input \in PartialConfigs : construct(input)
    \/ /\ server.status = "constructed"
       /\ \E k \in KeysTTL : fetch(k, MaxCallsConfig)
       /\ UNCHANGED observed
    \/ /\ server.status = "constructed"
       /\ Settle
       /\ UNCHANGED observed
    \/ /\ server.status = "constructed"
       /\ clearCache
       /\ UNCHANGED observed

SpecConfig == InitConfig /\ [][NextConfig]_vars

\* every bound of the configuration is within its range
InRange(cfg) == \A f \in ConfigFields : Ranges[f].min <= cfg[f] /\ cfg[f] <= Ranges[f].max

\* C27: the construction of the server throws exactly when a bound given is
\* outside its range; otherwise the configuration has the bounds as given,
\* the defaults for those not given, every bound within its range, and no
\* later step changes it; fetches are served only with such a configuration.
C27_OutOfRangeIsRejected ==
    [][/\ server'.status = "threw" =>
            \E f \in ConfigFields : Refused(f, server'.input[f])
       /\ server'.status = "constructed" =>
            /\ \A f \in ConfigFields :
                    /\ ~Refused(f, server'.input[f])
                    /\ server'.input[f].set => config'[f] = server'.input[f].value
                    /\ ~server'.input[f].set => config'[f] = Ranges[f].default
            /\ InRange(config')
       /\ server.status = "constructed" => config' = config /\ server' = server
       /\ Len(calls') > 0 => server'.status = "constructed"]_vars

\* a server given the least maxConcurrentRequests and the greatest cacheTTL
\* has them as its bounds, and has a request executing and one queued
C27_Witness ==
    /\ server.status = "constructed"
    /\ server.input.maxConcurrentRequests = [set |-> TRUE, value |-> 1]
    /\ server.input.cacheTTL = [set |-> TRUE, value |-> 86400]
    /\ ~server.input.maxCacheSize.set
    /\ config.maxConcurrentRequests = 1
    /\ config.maxCacheSize = 100
    /\ activeRequestCount = 1
    /\ Len(requestQueue) = 1

\* ---------------------------------------------------------------- tool calls
FetchTools ==
    {"fetch_page_content", "get_page_summary", "analyze_website_structure",
     "extract_page_metadata", "detect_technologies"}

\* the tools whose handler has the response validated
ValidatingTools == {"fetch_page_content", "get_page_summary"}

Tools == FetchTools \cup {"get_performance_metrics", "clear_cache"}

\* request.params.name
ToolNames == Tools \cup {"no_such_tool"}

\* request.params.arguments.url: a url, or a string z.string().url() refuses
NotAUrl == "not a url"
ToolUrls == KeysTTL \cup {NotAUrl}

NoError ==
    [name |-> "", message |-> Message("", "", 0), code |-> "", url |-> "",
     statusCode |-> NoStatus]

\* new Error(message)
Error(message) == [NoError EXCEPT !.name = "Error", !.message = message]

\* what schema.parse(args) throws
ZodError == [NoError EXCEPT !.name = "ZodError", !.message = Message("Invalid url", "", 0)]

\* the handler has not returned
NoResult == [returned |-> FALSE, isError |-> FALSE, text |-> Message("", "", 0)]

\* "return { content: [{ type: 'text', text }] }"
Returned(text) == [returned |-> TRUE, isError |-> FALSE, text |-> text]

\* the catch of the CallTool handler
Caught(error) ==
    [returned |-> TRUE, isError |-> TRUE, text |-> Prefixed("Error: ", error.message)]

handleError(error, url) ==
    IF error.name \in {"WebContentError", "NetworkError", "ParseError", "TimeoutError"}
    THEN error
    ELSE IF error.name = "AbortError"
    THEN TimeoutError(Message("Request timeout", "", 0), url)
    ELSE IF error.code \in {"ENOTFOUND", "ECONNREFUSED"}
    THEN NetworkError(Prefixed("Network error: ", error.message), url, NoStatus)
    ELSE WebContentError(Prefixed("Unexpected error: ", error.message), "UNKNOWN_ERROR",
                         url, NoStatus)

\* what "await this.httpClient.fetch(url, options)" threw in call id, NoError
\* when it gave a response; code is the code of an error of the transport
Fetched(id, url, code) ==
    CASE calls[id].res \in {"NetworkError", "TimeoutError"} ->
            (CHOOSE e \in seen.thrown : e.id = id).error
      [] calls[id].res = "AbortError" -> AbortError(url)
      [] calls[id].res = "FetchError" -> FetchError(url, code)
      [] OTHER -> NoError

\* a tool call: its name, its url, the call of fetch() it made, the error its
\* handler threw and the result returned for it
Tool(name, url, id, error, result) ==
    [name |-> name, url |-> url, fetch |-> id, error |-> error, result |-> result]

\* clearCache(), then resetMetrics()
handleClearCache ==
    /\ cache' = <<>>
    /\ metrics' = freshMetrics(now)
    /\ UNCHANGED <<now, activeRequests, requestQueue, activeRequestCount, config, calls>>

\* the CallTool handler up to its first await
callTool(name, url) ==
    /\ Len(server.tools) < MaxToolCalls
    /\ IF name \in FetchTools /\ url # NotAUrl
       THEN /\ fetch(url, MaxToolCalls)
            /\ server' = [server EXCEPT !.tools =
                            Append(@, Tool(name, url, Len(calls) + 1, NoError, NoResult))]
       ELSE IF name = "clear_cache"
       THEN /\ handleClearCache
            /\ server' = [server EXCEPT !.tools = Append(@, Tool(name, "", 0, NoError,
                            Returned(Message("Cache cleared and metrics reset successfully",
                                             "", 0))))]
       ELSE /\ UNCHANGED <<now, cache, activeRequests, requestQueue, activeRequestCount,
                           metrics, config, calls>>
            /\ \E error \in {IF name = "get_performance_metrics" THEN NoError
                             ELSE IF name \in FetchTools THEN ZodError
                             ELSE Error(Message("Unknown tool: ${name}", "", 0))} :
                 server' = [server EXCEPT !.tools =
                    Append(@, Tool(name, IF name \in FetchTools THEN url ELSE "", 0, error,
                                   IF error.name = ""
                                   THEN Returned(Message("JSON.stringify(performanceData)",
                                                         "", 0))
                                   ELSE Caught(error)))]
    /\ UNCHANGED <<recency, oversize, tally, seen, pc>>

\* the handler of tool call t after "await this.httpClient.fetch": the
\* validator, the processor (which may throw), handleError and the catch
toolReturns(t, response, throws, code) ==
    /\ t \in 1..Len(server.tools)
    /\ server.tools[t].fetch # 0
    /\ ~server.tools[t].result.returned
    /\ calls[server.tools[t].fetch].st = "done"
    /\ LET tool == server.tools[t]
           fetched == Fetched(tool.fetch, tool.url, code)
           error == IF fetched.name # "" THEN fetched
                    ELSE IF tool.name \in ValidatingTools /\ ~validateContent(response)
                    THEN WebContentError(Message("Invalid content type or size", "", 0),
                                         "INVALID_CONTENT", tool.url, NoStatus)
                    ELSE IF throws
                    THEN ParseError(Prefixed("Failed to process content: ",
                                             Message("${error.message}", "", 0)), tool.url)
                    ELSE NoError
       IN  server' = [server EXCEPT
                !.tools[t].error = IF error.name = "" THEN NoError
                                   ELSE handleError(error, tool.url),
                !.tools[t].result = IF error.name = ""
                                    THEN Returned(Message("JSON.stringify(analysis)", "", 0))
                                    ELSE Caught(handleError(error, tool.url))]
    /\ UNCHANGED <<now, cache, activeRequests, requestQueue, activeRequestCount, metrics,
                   config, calls, recency, oversize, tally, seen, pc>>

\* the configuration of a server given one slot and the least timeout
ServerConfig ==
    ConfigSchemaParse([f \in ConfigFields |->
        CASE f = "maxConcurrentRequests" -> [set |-> TRUE, value |-> 1]
          [] f = "requestTimeout" -> [set |-> TRUE, value |-> MsPerSec]
          [] OTHER -> Unset]).config

InitTool ==
    /\ NewHttpClient(ServerConfig)
    /\ server = [status |-> "serving", tools |-> <<>>]

\* the server handles tool calls; the fetches of its client settle
NextTool ==
    \/ \E name \in ToolNames : \E url \in ToolUrls : callTool(name, url)
    \/ (\E id \in 1..Len(calls) : responseOk(id)) /\ UNCHANGED observed
    \/ \E id \in 1..Len(calls) : \E status \in Statuses :
            requestFails(id, "notok") /\ Threw(id, "notok", status)
    \/ \E id \in 1..Len(calls) : \E o \in {"error", "abort"} :
            requestFails(id, o) /\ Threw(id, o, NoStatus)
    \/ (\E id \in 1..Len(calls) : bodySettles(id)) /\ UNCHANGED observed
    \/ \E t \in 1..Len(server.tools) :
       \E response \in {r \in Responses : r.contentLength = NoHeader} :
       \E throws \in BOOLEAN : \E code \in {"ENOTFOUND", "ECONNRESET"} :
            toolReturns(t, response, throws, code)
    \/ Tick(MaxTicksTool) /\ UNCHANGED observed

SpecTool == InitTool /\ [][NextTool]_vars

\* C26: a tool call that fails returns a result that is marked as an error
\* and tells the kind of the failure and the url: two failed calls with the
\* same result have the same kind of failure and the same url.
C26_ErrorResultIsTagged ==
    \A s, t \in 1..Len(server.tools) :
        (server.tools[s].error.name # "" /\ server.tools[t].error.name # "") =>
            /\ server.tools[s].result.returned
            /\ server.tools[s].result.isError
            /\ server.tools[s].result = server.tools[t].result =>
                    /\ server.tools[s].error.code = server.tools[t].error.code
                    /\ server.tools[s].url = server.tools[t].url

\* ---------------------------------------------------------------- the finally block, by statements
\* request id leaves its try block, by "return response" or by a throw of its
\* catch block, and enters its finally block
entersFinally(id) ==
    /\ pc = Idle
    /\ \/ \E o \in {"notok", "error", "abort"} :
            MayFail(id, o) /\ Becomes(failed(State, id, o))
       \/ \E n \in BodyLengths \cup {ReadFails} :
            /\ id \in 1..Len(calls)
            /\ calls[id].st = "caching"
            /\ Becomes(succeeded(State, id, n, now))
    /\ pc' = [id |-> id, line |-> 453]
    /\ UNCHANGED <<now, config, recency, oversize, tally, seen, server>>

\* "this.activeRequestCount--;"
decrements ==
    /\ pc.line = 453
    /\ Becomes(ReleaseSlot(State))
    /\ pc' = [pc EXCEPT !.line = 454]
    /\ UNCHANGED <<now, config, recency, oversize, tally, seen, server>>

\* "this.activeRequests.delete(cacheKey);"
deletes ==
    /\ pc.line = 454
    /\ Becomes(ReleaseHandle(State, pc.id))
    /\ pc' = [pc EXCEPT !.line = 455]
    /\ UNCHANGED <<now, config, recency, oversize, tally, seen, server>>

\* "this.processQueue();"
processesQueue ==
    /\ pc.line = 455
    /\ Becomes(processQueue(State, now))
    /\ pc' = Idle
    /\ UNCHANGED <<now, config, recency, oversize, tally, seen, server>>

\* one slot, one cache entry, two keys; the finally block statement by
\* statement, no other handler running before it is through
NextFinally ==
    \/ pc = Idle /\ (\E k \in KeysTTL : fetch(k, MaxCallsFinally)) /\ UNCHANGED observed
    \/ pc = Idle /\ (\E id \in 1..Len(calls) : responseOk(id)) /\ UNCHANGED observed
    \/ \E id \in 1..Len(calls) : entersFinally(id)
    \/ decrements
    \/ deletes
    \/ processesQueue

SpecFinally == InitTTL /\ [][NextFinally]_vars

\* C30: when a request that settles frees its slot, its handle has been
\* released, and when a queued task is started both are done.
C30_HandleBeforeSlot ==
    [][pc.id # 0 =>
        /\ activeRequestCount' < activeRequestCount
                => activeRequests[calls[pc.id].key] = NoPromise
        /\ Len(requestQueue') < Len(requestQueue) => pc.line = 455]_vars

\* the requests a step starts
StartedNow == {c \in 1..Len(calls') : calls'[c].started /\ (c > Len(calls) \/ ~calls[c].started)}

\* C31: a step in which an executing request completes, by success or by
\* failure, takes the head of a non-empty queue off the queue and starts it,
\* and starts no other request; with the queue empty it starts none.
C31_CompletionStartsOne ==
    [][(\E c \in Executing : calls'[c].st = "done") =>
            IF Len(requestQueue) > 0
            THEN /\ requestQueue' = Tail(requestQueue)
                 /\ StartedNow = {Head(requestQueue)}
                 /\ calls'[Head(requestQueue)].st = "executing"
            ELSE /\ requestQueue' = <<>>
                 /\ StartedNow = {}]_vars

\* with one slot a request has completed, the head of the queue was started in
\* its place and another request still waits
C31_Witness ==
    /\ config.maxConcurrentRequests = 1
    /\ \E c \in Ids : calls[c].started /\ calls[c].st = "done"
    /\ \E d \in Ids : calls[d].role = "queue" /\ calls[d].st \in {"executing", "caching"}
    /\ Len(requestQueue) = 1

\* C32: a request that waits in the queue is not settled at all, so never with
\* a TimeoutError; a request gets a TimeoutError only while it executes, and
\* only when requestTimeout has passed since it began to execute.
C32_NoTimeoutWhileQueued ==
    [][\A c \in Ids :
          /\ calls[c].st = "queued" =>
                /\ calls'[c].st \in {"queued", "executing"}
                /\ calls'[c].res = "none"
          /\ (calls[c].res # "TimeoutError" /\ calls'[c].res = "TimeoutError") =>
                /\ calls[c].st = "executing"
                /\ calls[c].started
                /\ now - calls[c].startTime >= config.requestTimeout]_vars

\* two requests have timed out, the later of them after a wait in the queue,
\* and the clock stands at twice requestTimeout
C32_Witness ==
    \E c \in Ids :
        /\ calls[c].role = "queue"
        /\ calls[c].res = "TimeoutError"
        /\ now = 2 * config.requestTimeout
        /\ \E d \in Ids : d < c /\ calls[d].res = "TimeoutError"

\* ---------------------------------------------------------------- the timeout of a request
\* options.timeout: left out, or a number of milliseconds
TimeoutOptions == {Unset} \cup {[set |-> TRUE, value |-> v] : v \in {0, 1, 500, 2000}}

\* "x || y" on an optional number x: y when x is undefined or 0
Or(x, y) == IF ~x.set \/ x.value = 0 THEN y ELSE x.value

\* "const timeout = options.timeout || this.config.requestTimeout"
timeout(options) == Or(options.timeout, config.requestTimeout)

\* executeRequest sets the timer of a request made with the options
setTimeout(options) ==
    /\ Len(seen.timers) < MaxTimers
    /\ seen' = [seen EXCEPT !.timers = Append(@, [options |-> options,
                                                  timeout |-> timeout(options)])]
    /\ UNCHANGED <<now, cache, activeRequests, requestQueue, activeRequestCount, metrics,
                   config, calls, recency, oversize, tally, server, pc>>

\* the timeout on its own: the timers of the requests made
NextTimer == \E t \in TimeoutOptions : setTimeout([timeout |-> t])

SpecTimer == InitTTL /\ [][NextTimer]_vars

\* C33: the timer of a request runs for options.timeout when the caller gave
\* one, 0 included, and for config.requestTimeout when the caller gave none.
C33_SuppliedTimeoutApplies ==
    \A i \in 1..Len(seen.timers) :
        LET given == seen.timers[i].options.timeout
        IN  seen.timers[i].timeout = IF given.set THEN given.value
                                     ELSE config.requestTimeout

\* ---------------------------------------------------------------- the timer and the body
\* "setTimeout(() => controller.abort(), timeout)" fires for a request whose
\* timer was not cleared: the request still waits at "await requestPromise"
timerFires == \E id \in Ids : requestFails(id, "abort")

\* the server and the network may be slow or silent; the clock goes on and a
\* timer that is due fires
NextStall ==
    \/ (\E k \in KeysTTL : fetch(k, MaxCallsStall)) /\ UNCHANGED observed
    \/ (\E id \in Ids : responseOk(id)) /\ UNCHANGED observed
    \/ (\E id \in Ids, outcome \in {"notok", "error"} : requestFails(id, outcome))
            /\ UNCHANGED observed
    \/ timerFires /\ UNCHANGED observed
    \/ (\E id \in Ids, length \in BodyLengths \cup {ReadFails} : requestSucceeds(id, length))
            /\ UNCHANGED observed
    \/ Tick(MaxTicksStall) /\ UNCHANGED observed

FairnessStall ==
    /\ WF_vars(Tick(MaxTicksStall) /\ UNCHANGED observed)
    /\ WF_vars(timerFires /\ UNCHANGED observed)

SpecStall == InitTTL /\ [][NextStall]_vars /\ FairnessStall

\* request id executes, and started early enough for its timeout to pass on
\* the clock
Due(id) ==
    IF id \in Ids
    THEN /\ calls[id].st \in {"executing", "caching"}
         /\ calls[id].startTime + config.requestTimeout <= MaxTicksStall * TickMs
    ELSE FALSE

\* request id has settled
HasSettled(id) == IF id \in Ids THEN calls[id].st = "done" ELSE FALSE

\* C34: a request that has started to execute, early enough for its timeout
\* to pass on the clock, settles and gives its slot back.
C34_StartedEventuallySettles ==
    \A id \in 1..MaxCallsStall : Due(id) ~> HasSettled(id)

\* C35: while a request waits in the queue every slot is taken, and no request
\* that arrived after a waiting request has been started.
C35_NoIdleSlotWhileQueued ==
    /\ Len(requestQueue) > 0 => activeRequestCount = config.maxConcurrentRequests
    /\ \A c, d \in Ids :
          (c < d /\ calls[c].st = "queued") => ~calls[d].started

\* a request has settled, the request that waited first runs in its place and
\* takes the last slot, and a request that arrived later still waits
C35_Witness ==
    /\ Len(requestQueue) > 0
    /\ activeRequestCount = config.maxConcurrentRequests
    /\ \E c, d, e \in Ids :
          /\ c < d /\ d < e
          /\ calls[c].started /\ calls[c].st = "done"
          /\ calls[d].role = "queue" /\ calls[d].st \in {"executing", "caching"}
          /\ calls[e].st = "queued"

\* C36: a request is started, at once or from the queue, only when the cache
\* holds no unexpired entry for its key.
C36_NoStartForCachedKey ==
    [][\A c \in StartedNow :
            getCachedResponse(cache', calls'[c].key, now').value = NoEntry]_vars

\* x is a finite number within [0, 1]
IsRate(x) == x.d > 0 /\ 0 <= x.n /\ x.n <= x.d

\* C37: cacheHitRate and errorRate are finite and within [0, 1] and
\* averageResponseTime is finite and not negative, resets during executing
\* and queued requests included.
C37_MetricsInRange ==
    /\ IsRate(metrics.cacheHitRate)
    /\ IsRate(metrics.errorRate)
    /\ metrics.averageResponseTime.d > 0
    /\ metrics.averageResponseTime.n >= 0

\* ---------------------------------------------------------------- what is written to the cache
\* one slot, one cache entry, two keys, the clock; the bodies longer than
\* maxContentLength observed
NextStore ==
    \/ (\E k \in KeysTTL : fetch(k, MaxCallsStore)) /\ UNCHANGED observed
    \/ (\E id \in Ids : networkSettles(id)) /\ UNCHANGED observed
    \/ \E id \in Ids : \E n \in BodyLengths \cup {ReadFails} :
            requestSucceeds(id, n) /\ BodyRead(id, n)
    \/ clearCache /\ UNCHANGED observed
    \/ Tick(MaxTicksStore) /\ UNCHANGED observed

SpecStore == InitTTL /\ [][NextStore]_vars

\* C38: an entry is added to the cache or replaced only in the step in which a
\* request for its key returns its response, with a body no longer than
\* maxContentLength; the step in which a request fails leaves the cache as
\* it is.
C38_OnlySuccessWrites ==
    [][LET written == {k \in CachedKeys(cache') :
                          \/ k \notin CachedKeys(cache)
                          \/ cache'[LruIndex(cache', k)].timestamp
                                # cache[LruIndex(cache, k)].timestamp}
           fails == {c \in Ids : /\ calls[c].st = "executing"
                                 /\ calls'[c].st = "done"
                                 /\ Failed(c)'}
       IN  /\ \A k \in written :
                \E c \in Ids : /\ calls[c].key = k
                               /\ calls[c].st = "caching"
                               /\ calls'[c].st = "done"
                               /\ calls'[c].res = "Response"
                               /\ c \notin oversize'
           /\ fails # {} => cache' = cache]_vars

\* next to an entry in the cache, a request for the other key has timed out
\* and a request has returned a response too long to cache
C38_Witness ==
    /\ Len(cache) = 1
    /\ \E c \in Ids : calls[c].res = "TimeoutError" /\ calls[c].key # cache[1].key
    /\ \E d \in oversize : calls[d].res = "Response"

\* C39: activeRequestCount is the number of requests that have started and
\* have not settled, and so is never negative and is 0 when none executes.
C39_CountIsExecuting ==
    /\ activeRequestCount = Cardinality(Executing)
    /\ activeRequestCount >= 0

\* a request has started and settled, one waits for its response and one
\* reads its body: the count is 2
C39_Witness ==
    /\ activeRequestCount = 2
    /\ \E c, d, e \in Ids :
          /\ calls[c].started /\ calls[c].st = "done"
          /\ calls[d].st = "executing"
          /\ calls[e].st = "caching"

\* C40: requestCount grows by one with each request that starts to execute
\* and by nothing else: a call served from the cache, joined to a request in
\* flight or queued leaves it as it is, and only a reset takes it back to 0.
C40_CountsStarts ==
    [][/\ calls' # calls =>
            metrics'.requestCount = metrics.requestCount + Cardinality(StartedNow)
       /\ calls' = calls => metrics'.requestCount \in {metrics.requestCount, 0}
       /\ (Len(calls') > Len(calls) /\ calls'[Len(calls')].role \in {"hit", "join", "queue"})
            => metrics'.requestCount = metrics.requestCount]_vars

\* two requests have started, the second from the queue and alone since the
\* metrics were reset
C40_Witness ==
    /\ metrics.requestCount = 1
    /\ \E c, d \in Ids :
          /\ c < d
          /\ calls[c].started /\ calls[c].st = "done"
          /\ calls[d].role = "queue" /\ calls[d].started

====
